---- MODULE Spec2Model ----
(***************************************************************************)
(* celery-exporter: the event consumption loop (Exporter.run and its       *)
(* handlers) and the queue-depth sampler thread (QueueLengthMonitor), as   *)
(* two threads of one process sharing the metric registry.                 *)
(*                                                                         *)
(* Python values are represented as follows.  A string that the code       *)
(* inspects character by character (an exception's repr) is a sequence of  *)
(* one-character strings; every other string is a TLA+ string.  None is    *)
(* the string NoneStr where a string is expected and NoneInt where a       *)
(* number is expected.  A metric is a function from the label tuples of    *)
(* its existing series to their values; a series that does not exist is    *)
(* not in its DOMAIN.                                                      *)
(***************************************************************************)
EXTENDS Integers, Sequences, FiniteSets, TLC

\* ------------------------------------------------------------------ bounds
\* Events the broker delivers to the consumption loop in one behaviour.
MaxEvents == 2
\* retry_interval ranges over 0..MaxRetryInterval (seconds).
MaxRetryInterval == 1
\* queue_length_interval ranges over None and 1..MaxInterval (seconds).
MaxInterval == 2
\* Raw length of a broker queue, 0..MaxRaw.
MaxRaw == 2
\* Number of entries of the broker's "unacked" hash, 0..MaxUnacked.
MaxUnacked == 2

\* Length of the strings given to get_exception_class, 0..MaxReprLen.
MaxReprLen == 3

\* --------------------------------------------------------------- constants
\* time.sleep(1) of the sampler's exception handler.
ErrorDelay == 1

NoneStr == "<None>"
NoneInt == 0 - 1
\* click's value of --queue-length-interval when the option is not given.
NoInterval == 0

\* ------------------------------------------------------------ value spaces
TaskEventTypes ==
    {"task-sent", "task-received", "task-started", "task-succeeded",
     "task-failed", "task-rejected", "task-revoked", "task-retried"}
WorkerEventTypes == {"worker-heartbeat", "worker-online", "worker-offline"}
\* An event type of the broker's protocol for which run() registers no handler.
UnhandledEventTypes == {"task-custom"}

Uuids == {"t1"}
TaskNames == {"add"}
Hostnames == {"w1", "w2"}

\* Characters of an exception repr: a letter, a digit, "(" and a character
\* that is neither a word character nor "(".
WordChars == {"K", "1"}
Chars == WordChars \cup {"(", "<"}
\* repr() of the exceptions carried by task-failed events: KeyError('k'),
\* a repr that starts with "<" (the MaybeEncodingError of the source comment)
\* and the empty string.
ExceptionReprs == {<<"K", "(">>, <<"<", "K">>, <<>>}
NoException == <<NoneStr>>

\* ------------------------------------------------------------- the program
VARIABLES
    \* click_params
    retry_interval, queue_length_interval, queue,
    \* the broker: events it will still deliver
    pending,
    \* the event last delivered to a handler
    delivered,
    \* where the main thread was when KeyboardInterrupt or SystemExit reached it
    signalAt,
    \* what logger has written at error level
    log,
    \* Exporter: the main thread's position in run()
    mainPc,
    \* Exporter.state (celery.events.state.State): tasks and workers
    tasks, workers,
    \* Exporter's metrics
    state_counters, celery_worker_up, worker_tasks_active,
    celery_task_runtime, celery_task_queuetime, queue_length,
    \* QueueLengthMonitor: thread position, self.running, the local result of
    \* run(), seconds of sleep left
    samplerPc, running, result, sleepLeft,
    \* the process has exited
    exited,
    \* a call of get_exception_class: its argument and what it returned
    call_argument, call_result

configVars == <<retry_interval, queue_length_interval, queue>>
stateVars == <<tasks, workers>>
eventMetricVars == <<state_counters, celery_worker_up, worker_tasks_active,
                     celery_task_runtime, celery_task_queuetime>>
samplerVars == <<samplerPc, running, result, sleepLeft>>
parseVars == <<call_argument, call_result>>
vars == <<configVars, parseVars, pending, delivered, signalAt, log, mainPc, stateVars,
          eventMetricVars, queue_length, samplerVars, exited>>

\* The empty mapping: a metric with no series, a State with no task.
Empty == [x \in {} |-> 0]

\* ------------------------------------------------------- prometheus_client
\* str() of a label value: labels(**kw) stores str(v).
LabelValue(v) == IF v = NoneStr THEN "None" ELSE v

\* Counter.labels(...).inc(amount), Histogram.labels(...).observe(): the
\* series is created at 0 by labels() and then increased.
IncSet(metric, labelvalues, amount) ==
    IF labelvalues \in DOMAIN metric
    THEN [metric EXCEPT ![labelvalues] = amount]
    ELSE metric @@ (labelvalues :> amount)

Inc(metric, labelvalues, amount) ==
    IF labelvalues \in DOMAIN metric
    THEN [metric EXCEPT ![labelvalues] = @ + amount]
    ELSE metric @@ (labelvalues :> amount)

\* Gauge.labels(...).set(value)
GaugeInc(metric, labelvalues, value) ==
    IF labelvalues \in DOMAIN metric
    THEN [metric EXCEPT ![labelvalues] = @ + value]
    ELSE metric @@ (labelvalues :> value)

GaugeSet(metric, labelvalues, value) ==
    IF labelvalues \in DOMAIN metric
    THEN [metric EXCEPT ![labelvalues] = value]
    ELSE metric @@ (labelvalues :> value)

\* ------------------------------------------------------ get_exception_class
Sentinel == <<"__PrometheusExporterFailedToParseExceptionName">>

\* Length of the longest prefix of s made of word characters: what the
\* greedy \w+ consumes at the start of the string.
RECURSIVE WordPrefixLen(_)
WordPrefixLen(s) ==
    IF s = <<>> \/ Head(s) \notin WordChars THEN 0
    ELSE 1 + WordPrefixLen(Tail(s))

\* The same with the pattern looked for anywhere in the string.
RECURSIVE get_exception_classSearch(_)
get_exception_classSearch(exception_name) ==
    LET n == WordPrefixLen(exception_name)
    IN IF exception_name = <<>> THEN Sentinel
       ELSE IF n >= 1 /\ n < Len(exception_name) /\ exception_name[n + 1] = "("
       THEN SubSeq(exception_name, 1, n)
       ELSE get_exception_classSearch(Tail(exception_name))

\* The same with the empty string in place of the sentinel.
get_exception_classEmpty(exception_name) ==
    LET n == WordPrefixLen(exception_name)
    IN IF n >= 1 /\ n < Len(exception_name) /\ exception_name[n + 1] = "("
       THEN SubSeq(exception_name, 1, n)
       ELSE <<>>

\* exception_pattern = re.compile(r"^(\w+)\("); m.group(1) or the sentinel.
\* Giving up characters of \w+ cannot help: the next one is a word character.
get_exception_class(exception_name) ==
    LET n == WordPrefixLen(exception_name)
    IN IF n >= 1 /\ n < Len(exception_name) /\ exception_name[n + 1] = "("
       THEN SubSeq(exception_name, 1, n)
       ELSE Sentinel

\* Every string of at most MaxReprLen characters.
ReprStrings == UNION {[1..n -> Chars] : n \in 0..MaxReprLen}

\* call_result before get_exception_class has returned.
NotCalled == <<"<not called>">>

\* ------------------------------------------------------------------ events
Timestamps == {1}
Runtimes == {2}
\* "active" of a worker-heartbeat: absent, or the number of active tasks.
ActiveCounts == {NoneInt, 4}

Event(type, uuid, hostname, name, exception, timestamp, runtime, active, expired) ==
    [type |-> type, uuid |-> uuid, hostname |-> hostname, name |-> name,
     exception |-> exception, timestamp |-> timestamp, runtime |-> runtime,
     active |-> active, expired |-> expired]

\* The fields each task event type carries in celery's protocol: the name with
\* task-sent and task-received, the exception repr with task-failed, the
\* runtime with task-succeeded.
TaskEvents ==
    { Event(t, u, h,
            IF t \in {"task-sent", "task-received"} THEN n ELSE NoneStr,
            IF t = "task-failed" THEN x ELSE NoException,
            ts,
            IF t = "task-succeeded" THEN r ELSE NoneInt,
            NoneInt, FALSE) :
        t \in TaskEventTypes \cup UnhandledEventTypes, u \in Uuids,
        h \in Hostnames, n \in TaskNames, x \in ExceptionReprs,
        ts \in Timestamps, r \in Runtimes }

\* expired: the heartbeat's timestamp is older than the expiry window when it
\* is processed.
WorkerEvents ==
    { Event(t, NoneStr, h, NoneStr, NoException, ts, NoneInt,
            IF t = "worker-heartbeat" THEN a ELSE NoneInt,
            IF t = "worker-heartbeat" THEN x ELSE FALSE) :
        t \in WorkerEventTypes, h \in Hostnames, ts \in Timestamps,
        a \in ActiveCounts, x \in BOOLEAN }

Events == TaskEvents \cup WorkerEvents

\* ------------------------------------------------------ State (StateTracker)
NewTask ==
    [name |-> NoneStr, hostname |-> NoneStr, exception |-> NoException,
     sent |-> NoneInt, runtime |-> NoneInt]

NewWorker == [alive |-> FALSE, active |-> NoneInt]

\* State.event(event) for a task event: the record of event["uuid"] is created
\* if absent and every field the event carries overwrites the stored one; the
\* event's timestamp is stored under the event's own name (task.sent).
MergeTask(ts, event) ==
    LET old == IF event.uuid \in DOMAIN ts THEN ts[event.uuid] ELSE NewTask
        new == [name |-> IF event.name # NoneStr THEN event.name ELSE old.name,
                hostname |-> event.hostname,
                exception |-> IF event.exception # NoException
                              THEN event.exception ELSE old.exception,
                sent |-> IF event.type = "task-sent"
                         THEN event.timestamp ELSE old.sent,
                runtime |-> IF event.runtime # NoneInt
                            THEN event.runtime ELSE old.runtime]
    IN IF event.uuid \in DOMAIN ts
       THEN [ts EXCEPT ![event.uuid] = new]
       ELSE ts @@ (event.uuid :> new)

\* State.event(event) for a worker-heartbeat: the worker of event["hostname"]
\* is created if absent; alive tells whether its last heartbeat is recent.
MergeWorker(ws, event) ==
    LET old == IF event.hostname \in DOMAIN ws THEN ws[event.hostname]
               ELSE NewWorker
        new == [alive |-> ~event.expired,
                active |-> IF event.active # NoneInt
                           THEN event.active ELSE old.active]
    IN IF event.hostname \in DOMAIN ws
       THEN [ws EXCEPT ![event.hostname] = new]
       ELSE ws @@ (event.hostname :> new)

\* ---------------------------------------------------------------- Exporter
\* Truth value of a Python number or None.
Truthy(v) == v # NoneInt /\ v # 0

\* _labels of one counter of the loop of track_task_event: the exception
\* label exists on the task-failed counter only.
CounterLabels(counter_name, event, task) ==
    LET labels == <<LabelValue(task.name), LabelValue(task.hostname)>>
    IN IF counter_name = "task-failed"
       THEN IF counter_name = event.type
            THEN Append(labels, get_exception_class(task.exception))
            ELSE Append(labels, <<>>)
       ELSE labels

\* inc() of the matching counter, inc(0) of every other one.
CounterAmountAlways(counter_name, event) == 1

CounterAmount(counter_name, event) ==
    IF counter_name = event.type THEN 1 ELSE 0

track_task_eventAlwaysObserves(event) ==
    LET merged == MergeTask(tasks, event)
        task == merged[event.uuid]
        labels == <<LabelValue(task.name), LabelValue(task.hostname)>>
    IN /\ tasks' = merged
       /\ state_counters' =
            [counter_name \in DOMAIN state_counters |->
                Inc(state_counters[counter_name],
                    CounterLabels(counter_name, event, task),
                    CounterAmount(counter_name, event))]
       /\ celery_task_queuetime' =
            IF event.type = "task-started"
            THEN Inc(celery_task_queuetime, labels, 1)
            ELSE celery_task_queuetime
       /\ celery_task_runtime' =
            IF event.type = "task-succeeded"
            THEN Inc(celery_task_runtime, labels, 1)
            ELSE celery_task_runtime
       /\ UNCHANGED <<workers, celery_worker_up, worker_tasks_active>>

track_task_event(event) ==
    LET merged == MergeTask(tasks, event)
        task == merged[event.uuid]
        labels == <<LabelValue(task.name), LabelValue(task.hostname)>>
    IN /\ tasks' = merged
       /\ state_counters' =
            [counter_name \in DOMAIN state_counters |->
                Inc(state_counters[counter_name],
                    CounterLabels(counter_name, event, task),
                    CounterAmount(counter_name, event))]
       /\ celery_task_queuetime' =
            IF event.type = "task-started" /\ Truthy(task.sent)
            THEN Inc(celery_task_queuetime, labels, 1)
            ELSE celery_task_queuetime
       /\ celery_task_runtime' =
            IF event.type = "task-succeeded"
            THEN Inc(celery_task_runtime, labels, 1)
            ELSE celery_task_runtime
       /\ UNCHANGED <<workers, celery_worker_up, worker_tasks_active>>

track_worker_status(event, is_online) ==
    LET value == IF is_online THEN 1 ELSE 0
    IN /\ celery_worker_up' =
            GaugeSet(celery_worker_up, <<event.hostname>>, value)
       /\ UNCHANGED <<stateVars, state_counters, worker_tasks_active,
                      celery_task_runtime, celery_task_queuetime>>

track_worker_heartbeatAlwaysUp(event) ==
    LET merged == MergeWorker(workers, event)
        worker_state == merged[event.hostname]
        active == IF Truthy(worker_state.active) THEN worker_state.active ELSE 0
    IN /\ workers' = merged
       /\ celery_worker_up' = GaugeSet(celery_worker_up, <<event.hostname>>, 1)
       /\ worker_tasks_active' =
            GaugeSet(worker_tasks_active, <<event.hostname>>, active)
       /\ UNCHANGED <<tasks, state_counters, celery_task_runtime,
                      celery_task_queuetime>>

track_worker_heartbeat(event) ==
    LET merged == MergeWorker(workers, event)
        worker_state == merged[event.hostname]
        active == IF Truthy(worker_state.active) THEN worker_state.active ELSE 0
        up == IF worker_state.alive THEN 1 ELSE 0
    IN /\ workers' = merged
       /\ celery_worker_up' = GaugeSet(celery_worker_up, <<event.hostname>>, up)
       /\ worker_tasks_active' =
            GaugeSet(worker_tasks_active, <<event.hostname>>, active)
       /\ UNCHANGED <<tasks, state_counters, celery_task_runtime,
                      celery_task_queuetime>>

\* The handlers dict of run(), as the Receiver applies it: an event whose
\* type has no handler is dropped.
HandleCatchAll(event) ==
    CASE event.type = "worker-heartbeat" -> track_worker_heartbeat(event)
      [] event.type = "worker-online" -> track_worker_status(event, TRUE)
      [] event.type = "worker-offline" -> track_worker_status(event, FALSE)
      [] OTHER -> track_task_event(event)

Handle(event) ==
    CASE event.type \in TaskEventTypes -> track_task_event(event)
      [] event.type = "worker-heartbeat" -> track_worker_heartbeat(event)
      [] event.type = "worker-online" -> track_worker_status(event, TRUE)
      [] event.type = "worker-offline" -> track_worker_status(event, FALSE)
      [] OTHER -> UNCHANGED <<stateVars, eventMetricVars>>

\* --------------------------------------------------------- Exporter.run
\* Values of the repeatable --queue option.
QueueOptions == {<<>>, <<"a">>, <<"a", "b">>, <<"a", "a">>}

\* click_params['queue'] or ['celery']
queues == IF queue = <<>> THEN <<"celery">> ELSE queue

NoEvent == Event("", NoneStr, NoneStr, NoneStr, NoException, 0, NoneInt,
                 NoneInt, FALSE)

\* The state after Exporter(buckets): every metric is registered and has no
\* series; run() has not been entered.
ExporterInit(retries, intervals, events) ==
    /\ retry_interval \in retries
    /\ queue_length_interval \in intervals
    /\ queue \in QueueOptions
    /\ pending = events
    /\ delivered = NoEvent
    /\ signalAt = "none"
    /\ log = {}
    /\ mainPc = "setup"
    /\ tasks = Empty /\ workers = Empty
    /\ state_counters = [counter_name \in TaskEventTypes |-> Empty]
    /\ celery_worker_up = Empty /\ worker_tasks_active = Empty
    /\ celery_task_runtime = Empty /\ celery_task_queuetime = Empty
    /\ queue_length = Empty
    /\ samplerPc = "none" /\ running = FALSE
    /\ result = <<>> /\ sleepLeft = 0
    /\ exited = FALSE

\* The same, with no call of get_exception_class other than the handlers'.
InitWith(retries, intervals, events) ==
    /\ ExporterInit(retries, intervals, events)
    /\ call_argument = <<>> /\ call_result = NotCalled

\* Lines 184-211: the State is created, and the QueueLengthMonitor when an
\* interval is configured.
RunSetup ==
    /\ mainPc = "setup"
    /\ tasks' = Empty /\ workers' = Empty
    /\ IF queue_length_interval # NoInterval
       THEN /\ samplerPc' = "created" /\ running' = TRUE
            /\ mainPc' = "start"
       ELSE /\ mainPc' = "capture"
            /\ UNCHANGED <<samplerPc, running>>
    /\ UNCHANGED <<configVars, parseVars, pending, delivered, signalAt, log,
                   eventMetricVars, queue_length, result, sleepLeft, exited>>

\* Line 212: self.queuelength_thread.start(), then on to the first Receiver.
StartThread ==
    /\ mainPc = "start"
    /\ samplerPc' = "check"
    /\ mainPc' = "capture"
    /\ UNCHANGED <<configVars, parseVars, pending, delivered, signalAt, log, stateVars,
                   eventMetricVars, queue_length, running, result, sleepLeft,
                   exited>>

\* recv.capture() delivers one event to its handler.
DispatchWritesDepth ==
    /\ mainPc = "capture"
    /\ pending > 0
    /\ pending' = pending - 1
    /\ \E event \in Events :
         /\ delivered' = event
         /\ Handle(event)
         /\ queue_length' = GaugeSet(queue_length, <<event.hostname>>, 1)
    /\ UNCHANGED <<configVars, parseVars, signalAt, log, mainPc,
                   samplerVars, exited>>

Dispatch ==
    /\ mainPc = "capture"
    /\ pending > 0
    /\ pending' = pending - 1
    /\ \E event \in Events :
         /\ delivered' = event
         /\ Handle(event)
    /\ UNCHANGED <<configVars, parseVars, signalAt, log, mainPc, queue_length,
                   samplerVars, exited>>

\* recv.capture() raises an Exception: the connection is lost.
ConnError ==
    /\ mainPc = "capture"
    /\ mainPc' = "except"
    /\ UNCHANGED <<configVars, parseVars, pending, delivered, signalAt, log, stateVars,
                   eventMetricVars, queue_length, samplerVars, exited>>

\* except Exception: log, then raise when retry_interval is 0, else go on to
\* the sleep.
OnExceptionRaise(interval) == "raised"

OnException(interval) == IF interval = 0 THEN "raised" ELSE "sleep"

HandleExceptionStopsSampler ==
    /\ mainPc = "except"
    /\ log' = log \cup {"celery-exporter exception"}
    /\ mainPc' = OnException(retry_interval)
    /\ running' = FALSE
    /\ UNCHANGED <<configVars, parseVars, pending, delivered, signalAt, stateVars,
                   eventMetricVars, queue_length, samplerPc, result,
                   sleepLeft, exited>>

HandleException ==
    /\ mainPc = "except"
    /\ log' = log \cup {"celery-exporter exception"}
    /\ mainPc' = OnException(retry_interval)
    /\ UNCHANGED <<configVars, parseVars, pending, delivered, signalAt, stateVars,
                   eventMetricVars, queue_length, samplerVars, exited>>

\* time.sleep(self.retry_interval) returns; the loop builds a new Receiver on
\* the same State and calls capture().
WakeNewState ==
    /\ mainPc = "sleep"
    /\ mainPc' = "capture"
    /\ tasks' = Empty /\ workers' = Empty
    /\ UNCHANGED <<configVars, parseVars, pending, delivered, signalAt, log,
                   eventMetricVars, queue_length, samplerVars, exited>>

Wake ==
    /\ mainPc = "sleep"
    /\ mainPc' = "capture"
    /\ UNCHANGED <<configVars, parseVars, pending, delivered, signalAt, log, stateVars,
                   eventMetricVars, queue_length, samplerVars, exited>>

\* KeyboardInterrupt or SystemExit in the main thread: re-raised by the first
\* except clause inside the try, not caught at all in the handler and in the
\* sleep.
OnSignalRetried(pc) == IF pc = "capture" THEN "except" ELSE "interrupted"

OnSignal(pc) == "interrupted"

Signal ==
    /\ mainPc \in {"capture", "except", "sleep"}
    /\ signalAt' = mainPc
    /\ mainPc' = OnSignal(mainPc)
    /\ UNCHANGED <<configVars, parseVars, pending, delivered, log, stateVars,
                   eventMetricVars, queue_length, samplerVars, exited>>

\* The interpreter exits once run() has raised and every non-daemon thread
\* has ended: QueueLengthMonitor is a threading.Thread created with the
\* default daemon=False.
ProcessExit ==
    /\ mainPc \in {"raised", "interrupted"}
    /\ samplerPc \in {"none", "done"}
    /\ exited = FALSE
    /\ exited' = TRUE
    /\ UNCHANGED <<configVars, parseVars, pending, delivered, signalAt, log, mainPc,
                   stateVars, eventMetricVars, queue_length, samplerVars>>

\* ------------------------------------------------------ QueueLengthMonitor
\* The broker as one sampling cycle reads it: the length of each configured
\* queue and the values of the "unacked" hash.  An entry is the decoded JSON
\* list; its last field names the queue.  The empty list stands for an entry
\* that cannot be decoded or indexed.
UnackedQueues == {"a", "b"}
Entries == {<<>>} \cup {<<"msg", q>> : q \in UnackedQueues}
UnackedLists == UNION {[1..n -> Entries] : n \in 0..MaxUnacked}
ConfiguredQueues == {queues[i] : i \in DOMAIN queues}
RawLengths == [ConfiguredQueues -> 0..MaxRaw]

\* pipe.llen(queue) for queue in self.queues, then pipe.hvals('unacked');
\* result = pipe.execute()
PipelineResult(raw, unacked) ==
    Append([i \in DOMAIN queues |-> raw[queues[i]]], unacked)

\* json.loads(task.decode('utf-8')) and data[-1] succeed on every entry.
Decodable(unacked) == \A i \in DOMAIN unacked : Len(unacked[i]) > 0

\* collections.Counter: c[key] += n, a missing key counting as 0.
CounterAdd(c, key, n) ==
    IF key \in DOMAIN c THEN [c EXCEPT ![key] = @ + n] ELSE c @@ (key :> n)

\* for task in unacked: lengths[data[-1]] += 1
RECURSIVE TallyUnacked(_, _)
TallyUnacked(c, unacked) ==
    IF unacked = <<>> THEN c
    ELSE LET data == Head(unacked)
         IN TallyUnacked(CounterAdd(c, data[Len(data)], 1), Tail(unacked))

\* for llen, queue in zip(result, self.queues): lengths[queue] += llen
RECURSIVE AddLengths(_, _, _)
AddLengths(c, llens, qs) ==
    IF llens = <<>> \/ qs = <<>> THEN c
    ELSE AddLengths(CounterAdd(c, Head(qs), Head(llens)),
                    Tail(llens), Tail(qs))

\* Lines 270-290 on the result of the pipeline.
CycleLengths(res) ==
    LET unacked == res[Len(res)]
        popped == SubSeq(res, 1, Len(res) - 1)
    IN AddLengths(TallyUnacked(Empty, unacked), popped, queues)

\* for queue, length in lengths.items(): self.gauge.labels(queue).set(length)
Published(gauge, c) ==
    [l \in DOMAIN gauge \cup {<<q>> : q \in DOMAIN c} |->
        IF l[1] \in DOMAIN c THEN c[l[1]] ELSE gauge[l]]

\* while self.running
SamplerCheckIgnoringStop ==
    /\ samplerPc = "check"
    /\ samplerPc' = "cycle"
    /\ UNCHANGED <<configVars, parseVars, pending, delivered, signalAt, log, mainPc,
                   stateVars, eventMetricVars, queue_length, running, result,
                   sleepLeft, exited>>

SamplerCheck ==
    /\ samplerPc = "check"
    /\ samplerPc' = IF running THEN "cycle" ELSE "done"
    /\ UNCHANGED <<configVars, parseVars, pending, delivered, signalAt, log, mainPc,
                   stateVars, eventMetricVars, queue_length, running, result,
                   sleepLeft, exited>>

\* except Exception: the thread logs and goes on to time.sleep(1).
AfterCycleExceptionCrash == "done"

AfterCycleException == "errsleep"

CycleExceptionPublishes ==
    /\ result' = <<>>
    /\ queue_length' =
         Published(queue_length, [q \in ConfiguredQueues |-> 0])
    /\ log' = log \cup {"Uncaught exception"}
    /\ samplerPc' = AfterCycleException
    /\ sleepLeft' = ErrorDelay

CycleException ==
    /\ result' = <<>>
    /\ queue_length' = queue_length
    /\ log' = log \cup {"Uncaught exception"}
    /\ samplerPc' = AfterCycleException
    /\ sleepLeft' = ErrorDelay

\* One pass of the try block up to the sleep, lines 270-293: connect and
\* query, decode and add up, publish.  An exception while connecting or
\* querying, or while decoding an entry, reaches the handler before the first
\* gauge is set.  result is the local variable of run(): it holds what a
\* successful pass read until the sleep starts; nothing reads it later, nor
\* after an exception.
SamplerCycle ==
    /\ samplerPc = "cycle"
    /\ \/ CycleException
       \/ \E raw \in RawLengths, unacked \in UnackedLists :
            IF Decodable(unacked)
            THEN /\ result' = PipelineResult(raw, unacked)
                 /\ queue_length' =
                      Published(queue_length, CycleLengths(result'))
                 /\ samplerPc' = "sleep"
                 /\ sleepLeft' = queue_length_interval
                 /\ log' = log
            ELSE CycleException
    /\ UNCHANGED <<configVars, parseVars, pending, delivered, signalAt, mainPc,
                   stateVars, eventMetricVars, running, exited>>

\* One second of time.sleep(self.interval) or of time.sleep(1) passes; the
\* sleep returns when none is left.
SamplerSleep ==
    /\ samplerPc \in {"sleep", "errsleep"}
    /\ result' = <<>>
    /\ IF sleepLeft > 1
       THEN /\ sleepLeft' = sleepLeft - 1
            /\ samplerPc' = samplerPc
       ELSE /\ sleepLeft' = 0
            /\ samplerPc' = "check"
    /\ UNCHANGED <<configVars, parseVars, pending, delivered, signalAt, log, mainPc,
                   stateVars, eventMetricVars, queue_length, running, exited>>

\* QueueLengthMonitor.stop(), called by any thread once the object exists.
stop ==
    /\ samplerPc # "none"
    /\ running' = FALSE
    /\ UNCHANGED <<configVars, parseVars, pending, delivered, signalAt, log, mainPc,
                   stateVars, eventMetricVars, queue_length, samplerPc,
                   result, sleepLeft, exited>>

\* ---------------------------------------------------------- specifications
SamplerStep ==
    \/ SamplerCheck
    \/ SamplerCycle
    \/ SamplerSleep

\* The whole program.  Without a sampler the broker delivers MaxEvents
\* events; with a sampler the broker delivers none.
Init ==
    \/ InitWith(0..MaxRetryInterval, {NoInterval}, MaxEvents)
    \/ InitWith(0..MaxRetryInterval, 1..MaxInterval, 0)

Next ==
    \/ RunSetup
    \/ StartThread
    \/ Dispatch
    \/ ConnError
    \/ HandleException
    \/ Wake
    \/ Signal
    \/ ProcessExit
    \/ SamplerStep
    \/ stop

Spec == Init /\ [][Next]_vars

\* The consumption loop of a process started without --queue-length-interval.
ConsumerInit == InitWith(0..MaxRetryInterval, {NoInterval}, MaxEvents)

ConsumerNext ==
    \/ RunSetup
    \/ Dispatch
    \/ ConnError
    \/ HandleException
    \/ Wake
    \/ Signal
    \/ ProcessExit

ConsumerSpec == ConsumerInit /\ [][ConsumerNext]_vars

\* The sampler of a process started with --queue-length-interval and the
\* default --retry-interval, its main thread blocked in capture() on a healthy
\* connection that delivers nothing.
SamplerInit == InitWith({0}, 1..MaxInterval, 0)

SamplerNext ==
    \/ RunSetup
    \/ StartThread
    \/ SamplerStep
    \/ stop

SamplerSpec == SamplerInit /\ [][SamplerNext]_vars

\* A started thread is scheduled again and again and its sleeps end; nothing
\* obliges anyone to call stop().
SamplerFairness ==
    /\ WF_vars(RunSetup)
    /\ WF_vars(StartThread)
    /\ WF_vars(SamplerStep)

SamplerFairSpec == SamplerSpec /\ SamplerFairness

\* The same process when the connection can fail and signals can arrive:
\* retry_interval is 0, so the loop never sleeps.
FailFastNext ==
    \/ RunSetup
    \/ StartThread
    \/ ConnError
    \/ HandleException
    \/ Signal
    \/ ProcessExit
    \/ SamplerStep
    \/ stop

FailFastFairSpec ==
    /\ SamplerInit /\ [][FailFastNext]_vars
    /\ SamplerFairness
    /\ WF_vars(HandleException)
    /\ WF_vars(ProcessExit)

\* The process as it runs with --queue-length-interval: nothing in the
\* program calls stop(), the connection of the consumption loop can fail and
\* be retried, signals can arrive; the broker delivers no event.  The sampler
\* watches the default queue.
SupervisedInit ==
    /\ InitWith(0..MaxRetryInterval, 1..MaxInterval, 0)
    /\ queue = <<>>

SupervisedNext ==
    \/ RunSetup
    \/ StartThread
    \/ ConnError
    \/ HandleException
    \/ Wake
    \/ Signal
    \/ SamplerStep

SupervisedFairSpec ==
    /\ SupervisedInit /\ [][SupervisedNext]_vars
    /\ SamplerFairness

\* get_exception_class called on any string, in a process that does nothing
\* else.
ParseInit ==
    /\ ExporterInit({0}, {NoInterval}, 0)
    /\ queue = <<>>
    /\ call_argument \in ReprStrings
    /\ call_result = NotCalled

CallGetExceptionClass ==
    /\ call_result = NotCalled
    /\ call_result' = get_exception_class(call_argument)
    /\ UNCHANGED <<configVars, call_argument, pending, delivered, signalAt,
                   log, mainPc, stateVars, eventMetricVars, queue_length,
                   samplerVars, exited>>

ParseNext == CallGetExceptionClass

ParseSpec == ParseInit /\ [][ParseNext]_vars

\* Both units at work on a healthy connection: the broker delivers an event
\* to the consumption loop, at any moment, while the sampler, watching the
\* default queue, runs its passes.
ConcurrentInit ==
    /\ InitWith({0}, 1..MaxInterval, 1)
    /\ queue = <<>>

ConcurrentNext ==
    \/ RunSetup
    \/ StartThread
    \/ Dispatch
    \/ SamplerStep

ConcurrentSpec == ConcurrentInit /\ [][ConcurrentNext]_vars

\* ------------------------------------------------------------------ claims
\* Value of a counter series, a series that does not exist counting as 0.
ValueOf(metric, labelvalues) ==
    IF labelvalues \in DOMAIN metric THEN metric[labelvalues] ELSE 0

\* A handler has just run on a task-lifecycle event.
TaskEventHandled ==
    pending' = pending - 1 /\ delivered'.type \in TaskEventTypes

\* The label tuple the handler uses on one counter for the delivered event:
\* name and hostname of the merged task; on the task-failed counter also the
\* exception class when the event is task-failed and the empty label when not.
TouchedLabels(counter_name) ==
    LET task == tasks'[delivered'.uuid]
        base == <<LabelValue(task.name), LabelValue(task.hostname)>>
    IN IF counter_name # "task-failed" THEN base
       ELSE IF delivered'.type = "task-failed"
            THEN Append(base, get_exception_class(delivered'.exception))
            ELSE Append(base, <<>>)

\* C1: every handled task-lifecycle event adds 1 to exactly one series, that
\* of the counter named by the event type under the merged task's labels;
\* every other counter then has the series of its own label tuple, at the
\* value it had (0 if new); no other series of the family changes.
C1_OneCounterIncremented ==
    [][TaskEventHandled =>
        \A counter_name \in TaskEventTypes :
            LET touched == TouchedLabels(counter_name)
                before == state_counters[counter_name]
                after == state_counters'[counter_name]
            IN /\ touched \in DOMAIN after
               /\ after[touched] = ValueOf(before, touched)
                    + (IF counter_name = delivered'.type THEN 1 ELSE 0)
               /\ DOMAIN after = DOMAIN before \cup {touched}
               /\ \A l \in DOMAIN before \ {touched} : after[l] = before[l]
    ]_vars

\* A task-failed event was handled after another event of the same task: its
\* class labels the incremented series and the other counters were touched.
C1_Witness ==
    /\ delivered.type = "task-failed"
    /\ pending = 0
    /\ <<"add", "w2", <<"K">>>> \in DOMAIN state_counters["task-failed"]
    /\ state_counters["task-failed"][<<"add", "w2", <<"K">>>>] = 1
    /\ <<"add", "w2">> \in DOMAIN state_counters["task-received"]
    /\ state_counters["task-received"][<<"add", "w2">>] = 0
    /\ <<"add", "w1">> \in DOMAIN state_counters["task-received"]
    /\ state_counters["task-received"][<<"add", "w1">>] = 1

\* C2: with retry_interval 0, once run() has raised the exception of the
\* consumption loop the process terminates, sampler thread or not.
C2_FailFastTerminates ==
    (retry_interval = 0 /\ mainPc = "raised") ~> exited

\* C3: with retry_interval > 0 an exception of the consumption loop never
\* leaves run(): the handler goes to the backoff sleep, the sleep to a new
\* receive attempt (only a signal ends either), and no event is handled and no
\* metric or record changes in between.
C3_RetriesForever ==
    /\ [](retry_interval > 0 => mainPc # "raised")
    /\ [][retry_interval > 0 /\ mainPc = "except" /\ mainPc' # mainPc
            => mainPc' \in {"sleep", "interrupted"}]_vars
    /\ [][mainPc = "sleep" /\ mainPc' # mainPc
            => mainPc' \in {"capture", "interrupted"}]_vars
    /\ [][(mainPc \in {"except", "sleep"})
            => UNCHANGED <<pending, delivered, stateVars, eventMetricVars>>
       ]_vars

\* After an exception was logged the loop is receiving again, with an event
\* still to come.
C3_Witness ==
    /\ retry_interval > 0
    /\ "celery-exporter exception" \in log
    /\ mainPc = "capture"
    /\ pending = 1
    /\ tasks # Empty

\* C4: once KeyboardInterrupt or SystemExit has reached the main thread, in
\* capture(), in the handler or in the backoff sleep, run() has ended with it:
\* the loop is in no sleep and in no receive attempt, whatever retry_interval.
C4_SignalTerminates ==
    signalAt # "none" => mainPc = "interrupted"

\* A signal arrived during the backoff sleep.
C4_Witness ==
    /\ signalAt = "sleep"
    /\ retry_interval > 0
    /\ mainPc = "interrupted"

\* The three steps of a retry: the exception, the handler that goes on to
\* the sleep, the end of the sleep with the new receive attempt.
RetryStep ==
    \/ mainPc = "capture" /\ mainPc' = "except"
    \/ mainPc = "except" /\ mainPc' = "sleep"
    \/ mainPc = "sleep" /\ mainPc' = "capture"

\* C5: the steps of a retry change no counter, gauge or histogram and no
\* Task or Worker record.
C5_RetryResetsNothing ==
    [][RetryStep => UNCHANGED <<stateVars, eventMetricVars, queue_length>>
    ]_vars

\* The loop receives again after an exception, and the State and the
\* counters still hold what the event before the exception left.
C5_Witness ==
    /\ "celery-exporter exception" \in log
    /\ mainPc = "capture"
    /\ pending = 1
    /\ "t1" \in DOMAIN tasks
    /\ <<"add", "w1">> \in DOMAIN state_counters["task-sent"]
    /\ state_counters["task-sent"][<<"add", "w1">>] = 1

\* C6: no step removes a series of a task-lifecycle counter or lowers it.
C6_CountersMonotonic ==
    [][\A counter_name \in TaskEventTypes :
         \A l \in DOMAIN state_counters[counter_name] :
            /\ l \in DOMAIN state_counters'[counter_name]
            /\ state_counters'[counter_name][l]
                 >= state_counters[counter_name][l]
    ]_vars

\* The same event was delivered twice, with a retry in between or not.
C6_Witness ==
    /\ <<"add", "w1">> \in DOMAIN state_counters["task-received"]
    /\ state_counters["task-received"][<<"add", "w1">>] = 2
    /\ "celery-exporter exception" \in log

\* C7: an exception in a sampling pass never ends the loop: the pass is
\* followed by the error delay and, unless stop() was called, by a new pass;
\* and every pass that succeeds sets the gauges to what it computed.
C7_SamplerSurvivesException ==
    /\ [][samplerPc = "cycle" => samplerPc' \in {"cycle", "sleep", "errsleep"}]_vars
    /\ [][samplerPc = "errsleep" => samplerPc' \in {"errsleep", "check"}]_vars
    /\ (samplerPc = "errsleep") ~> (samplerPc = "cycle" \/ ~running)
    /\ [][samplerPc = "cycle" /\ samplerPc' = "sleep" =>
            \A q \in DOMAIN CycleLengths(result') :
               /\ <<q>> \in DOMAIN queue_length'
               /\ queue_length'[<<q>>] = CycleLengths(result')[q]]_vars

\* A pass has just published a=3 and b=1 after an earlier pass failed.
C7_Witness ==
    /\ "Uncaught exception" \in log
    /\ running
    /\ samplerPc = "sleep"
    /\ result # <<>>
    /\ queue = <<"a">>
    /\ DOMAIN queue_length = {<<"a">>, <<"b">>}
    /\ queue_length[<<"a">>] = 3
    /\ queue_length[<<"b">>] = 1

\* C8: when stop() has been called and the sampler is in the sleep between
\* two passes, no more of the sleep is left than the fixed delay, whatever
\* the interval.
C8_StopInterruptsSleep ==
    (~running /\ samplerPc = "sleep") => sleepLeft <= ErrorDelay

\* C9: after stop() the thread ends, wherever the call found it, and the
\* first evaluation of the loop condition after the call ends the loop: no
\* pass starts any more.
C9_StopTerminates ==
    /\ (samplerPc # "none" /\ ~running) ~> (samplerPc = "done")
    /\ [][~running /\ samplerPc \in {"check", "done"}
            => samplerPc' \in {"check", "done"}]_vars
    /\ [][~running /\ samplerPc = "check" /\ samplerPc' # samplerPc
            => samplerPc' = "done"]_vars
    /\ [][samplerPc = "done" => samplerPc' = "done"]_vars

\* The thread has ended after stop(), having published and having failed.
C9_Witness ==
    /\ ~running
    /\ samplerPc = "done"
    /\ queue_length # Empty
    /\ "Uncaught exception" \in log

\* What a successful pass read: result is the llen of each configured queue
\* in order, followed by the unacked entries.
ReadUnacked == result[Len(result)]
ReadRawLength(q) ==
    IF q \in ConfiguredQueues
    THEN result[CHOOSE i \in DOMAIN queues : queues[i] = q]
    ELSE 0
ReadUnackedCount(q) ==
    Cardinality({i \in DOMAIN ReadUnacked :
                    ReadUnacked[i][Len(ReadUnacked[i])] = q})
ReadQueues ==
    ConfiguredQueues
        \cup {ReadUnacked[i][Len(ReadUnacked[i])] : i \in DOMAIN ReadUnacked}

\* C10: after a successful pass the gauge of every queue that is configured
\* or named by an unacked entry is the queue's raw length (0 if it is not
\* configured) plus the number of unacked entries that name it.
C10_PublishedDepth ==
    result # <<>> =>
        \A q \in ReadQueues :
            /\ <<q>> \in DOMAIN queue_length
            /\ queue_length[<<q>>] = ReadRawLength(q) + ReadUnackedCount(q)

\* C11: the two units fail independently.  No step of the consumption loop
\* (exception, handler, backoff, signal, end of run()) changes anything of the
\* sampler: its running flag stays true, its thread never ends, and after the
\* loop has ended its passes go on.  No step of the sampler, a failed pass
\* included, changes the position of the consumption loop, its State or its
\* metrics.
C11_IndependentFailureDomains ==
    /\ [](samplerPc # "none" => running /\ samplerPc # "done")
    /\ [][(mainPc \in {"capture", "except", "sleep"}) /\ mainPc' # mainPc
            => UNCHANGED <<samplerVars, queue_length>>]_vars
    /\ (mainPc \in {"raised", "interrupted"}) ~> (samplerPc = "cycle")
    /\ [][(samplerPc \in {"check", "cycle", "sleep", "errsleep"})
              /\ samplerPc' # samplerPc
            => UNCHANGED <<mainPc, signalAt, pending, stateVars,
                           eventMetricVars>>]_vars

\* run() has raised with retry_interval 0 and later a pass of the sampler
\* has failed and another one has published.
C11_Witness ==
    /\ mainPc = "raised"
    /\ running
    /\ samplerPc = "sleep"
    /\ "Uncaught exception" \in log
    /\ "celery-exporter exception" \in log
    /\ result # <<>>
    /\ queue_length # Empty

\* An event was delivered whose type has no handler.
UnhandledDelivered ==
    /\ pending' = pending - 1
    /\ delivered'.type \notin TaskEventTypes \cup WorkerEventTypes

\* C12: the delivery of an event whose type has no handler changes no
\* counter, gauge or histogram and no Task or Worker record, logs no error
\* and leaves the loop receiving: the events after it meet the state they
\* would have met without it.
C12_UnhandledEventDropped ==
    [][UnhandledDelivered =>
          /\ UNCHANGED <<stateVars, eventMetricVars, queue_length, log>>
          /\ mainPc = "capture" /\ mainPc' = "capture"
    ]_vars

\* Two events were delivered, the second one a task-received, and the State
\* and the metrics hold what that one event alone leaves: the first one was
\* dropped.
C12_Witness ==
    /\ pending = 0
    /\ delivered.type = "task-received"
    /\ mainPc = "capture"
    /\ log = {}
    /\ celery_worker_up = Empty /\ worker_tasks_active = Empty
    /\ DOMAIN tasks = {"t1"}
    /\ \A counter_name \in TaskEventTypes \ {"task-failed"} :
          /\ DOMAIN state_counters[counter_name] = {<<"add", "w1">>}
          /\ state_counters[counter_name][<<"add", "w1">>] =
                IF counter_name = "task-received" THEN 1 ELSE 0
    /\ DOMAIN state_counters["task-failed"] = {<<"add", "w1", <<>>>>}

\* A worker event of hostname h was delivered.
WorkerEventDelivered(h) ==
    /\ pending' = pending - 1
    /\ delivered'.type \in WorkerEventTypes
    /\ delivered'.hostname = h

\* C13: the delivery of worker-online sets celery_worker_up of the event's
\* hostname to 1 and that of worker-offline to 0, whatever the State holds
\* and whatever the gauge held, and neither touches the State; a
\* worker-heartbeat sets it from the merged worker's alive flag; no other
\* step creates, removes or changes the series of that hostname, so the
\* gauge is what the last worker event of the hostname wrote.
C13_WorkerStatusSet ==
    [][\A h \in Hostnames :
          IF WorkerEventDelivered(h)
          THEN /\ <<h>> \in DOMAIN celery_worker_up'
               /\ celery_worker_up'[<<h>>] =
                    CASE delivered'.type = "worker-online" -> 1
                      [] delivered'.type = "worker-offline" -> 0
                      [] OTHER -> IF workers'[h].alive THEN 1 ELSE 0
               /\ delivered'.type # "worker-heartbeat"
                    => UNCHANGED <<stateVars, worker_tasks_active>>
          ELSE /\ <<h>> \in DOMAIN celery_worker_up'
                    <=> <<h>> \in DOMAIN celery_worker_up
               /\ <<h>> \in DOMAIN celery_worker_up
                    => celery_worker_up'[<<h>>] = celery_worker_up[<<h>>]
    ]_vars

\* worker-offline was delivered after a heartbeat of the same worker: the
\* State still holds the worker as alive and the gauge is 0.
C13_Witness ==
    /\ delivered.type = "worker-offline"
    /\ delivered.hostname = "w1"
    /\ "w1" \in DOMAIN workers
    /\ workers["w1"].alive
    /\ celery_worker_up[<<"w1">>] = 0
    /\ worker_tasks_active[<<"w1">>] = 4

\* C14: the delivery of a worker-heartbeat leaves the worker of the event's
\* hostname in the State and sets, for that hostname, worker_tasks_active to
\* the merged worker's active count (0 when it has none) and
\* celery_worker_up to 1 when the merged worker is alive and to 0 when not;
\* it changes nothing else.
C14_HeartbeatGauges ==
    [][pending' = pending - 1 /\ delivered'.type = "worker-heartbeat" =>
          LET h == delivered'.hostname
          IN /\ h \in DOMAIN workers'
             /\ <<h>> \in DOMAIN worker_tasks_active'
             /\ worker_tasks_active'[<<h>>] =
                  (IF workers'[h].active = NoneInt THEN 0
                   ELSE workers'[h].active)
             /\ <<h>> \in DOMAIN celery_worker_up'
             /\ celery_worker_up'[<<h>>] =
                  (IF workers'[h].alive THEN 1 ELSE 0)
             /\ UNCHANGED <<tasks, state_counters, celery_task_runtime,
                            celery_task_queuetime, queue_length>>
    ]_vars

\* A heartbeat with active count 4 has given active-tasks 4 and alive 1; the
\* other worker's heartbeat, without a count and expired, has given 0 and 0.
C14_Witness ==
    /\ pending = 0
    /\ delivered.type = "worker-heartbeat"
    /\ delivered.hostname = "w1"
    /\ delivered.active = 4
    /\ ~delivered.expired
    /\ worker_tasks_active[<<"w1">>] = 4
    /\ celery_worker_up[<<"w1">>] = 1
    /\ <<"w2">> \in DOMAIN worker_tasks_active
    /\ worker_tasks_active[<<"w2">>] = 0
    /\ celery_worker_up[<<"w2">>] = 0

\* The string s starts with n word characters followed by "(".
LeadingToken(s, n) ==
    /\ n \in 1..(Len(s) - 1)
    /\ \A i \in 1..n : s[i] \in WordChars
    /\ s[n + 1] = "("

\* C15: get_exception_class returns a value for every string, the empty one
\* included: the leading token when the string starts with a token (one or
\* more word characters, the \w of the pattern) followed at once by "(", the
\* sentinel in every other case.
C15_ExceptionClass ==
    call_result # NotCalled =>
        IF \E n \in 1..MaxReprLen : LeadingToken(call_argument, n)
        THEN \E n \in 1..MaxReprLen :
                /\ LeadingToken(call_argument, n)
                /\ call_result = [i \in 1..n |-> call_argument[i]]
        ELSE call_result = Sentinel

\* The call on "K1(" has returned "K1".
C15_Witness ==
    /\ call_argument = <<"K", "1", "(">>
    /\ call_result = <<"K", "1">>

\* A task-started event was handled whose merged task has a sent timestamp.
StartedWithSent ==
    /\ pending' = pending - 1
    /\ delivered'.type = "task-started"
    /\ tasks'[delivered'.uuid].sent # NoneInt

\* C16: the handling of a task-started event whose merged task has a sent
\* timestamp adds one observation to celery_task_queuetime, under the name
\* and hostname of the merged task; no other step adds, removes or changes
\* an observation.  A task-started handled before the task's task-sent has no
\* sent timestamp yet, so it is never observed.
C16_QueuetimeObserved ==
    [][IF StartedWithSent
       THEN LET task == tasks'[delivered'.uuid]
                labels == <<LabelValue(task.name), LabelValue(task.hostname)>>
            IN /\ DOMAIN celery_task_queuetime' =
                    DOMAIN celery_task_queuetime \cup {labels}
               /\ \A l \in DOMAIN celery_task_queuetime' :
                    celery_task_queuetime'[l] =
                        ValueOf(celery_task_queuetime, l)
                            + (IF l = labels THEN 1 ELSE 0)
       ELSE celery_task_queuetime' = celery_task_queuetime
    ]_vars

\* task-sent from w1 and then task-started on w2: one observation under the
\* merged task's name and the worker's hostname.
C16_Witness ==
    /\ pending = 0
    /\ delivered.type = "task-started"
    /\ delivered.hostname = "w2"
    /\ tasks["t1"].sent = 1
    /\ <<"add", "w1">> \in DOMAIN state_counters["task-sent"]
    /\ state_counters["task-sent"][<<"add", "w1">>] = 1
    /\ DOMAIN celery_task_queuetime = {<<"add", "w2">>}
    /\ celery_task_queuetime[<<"add", "w2">>] = 1

\* C17: every series of the task-failed counter whose exception label is the
\* empty string is at 0: the empty label only receives inc(0), and the inc()
\* of a task-failed event goes to the series of a class or of the sentinel.
C17_EmptyExceptionLabelZero ==
    \A l \in DOMAIN state_counters["task-failed"] :
        l[3] = <<>> => state_counters["task-failed"][l] = 0

\* A task-failed whose exception repr is the empty string was handled after
\* a task-received of the same task on the same worker: the sentinel's series
\* is at 1 and the series of the empty label, touched by both events' other
\* counters, at 0.
C17_Witness ==
    /\ pending = 0
    /\ delivered.type = "task-failed"
    /\ delivered.exception = <<>>
    /\ DOMAIN state_counters["task-failed"] =
          {<<"add", "w1", <<>>>>, <<"add", "w1", Sentinel>>}
    /\ state_counters["task-failed"][<<"add", "w1", Sentinel>>] = 1
    /\ state_counters["task-failed"][<<"add", "w1", <<>>>>] = 0

\* C18, for the series of the queues that are not configured (the depth of a
\* configured queue is C10's): after a successful pass every such series
\* that exists, published by this pass or by an earlier one, is at the
\* number of unacked entries that name its queue in this pass, so at 0 when
\* they have all disappeared.
C18_NoStaleDepth ==
    result # <<>> =>
        \A l \in DOMAIN queue_length :
            l[1] \notin ConfiguredQueues =>
                queue_length[l] = ReadUnackedCount(l[1])

\* C19: a pass that ends in the exception handler has set no gauge, and the
\* thread then sleeps the fixed delay instead of the interval; a pass that
\* sets a gauge has read every length and decoded every unacked entry.
C19_FailedCyclePublishesNothing ==
    /\ [][samplerPc = "cycle" /\ samplerPc' \notin {"cycle", "sleep"} =>
            /\ samplerPc' = "errsleep"
            /\ queue_length' = queue_length
            /\ sleepLeft' = ErrorDelay
            /\ "Uncaught exception" \in log']_vars
    /\ [][queue_length' # queue_length =>
            /\ samplerPc = "cycle" /\ samplerPc' = "sleep"
            /\ sleepLeft' = queue_length_interval
            /\ Len(result') = Len(queues) + 1
            /\ Decodable(result'[Len(result')])]_vars

\* A pass has failed after an earlier one had published a=3 and b=1: the
\* gauges are as they were and one second of sleep is ahead, not two.
C19_Witness ==
    /\ samplerPc = "errsleep"
    /\ sleepLeft = ErrorDelay
    /\ queue_length_interval = 2
    /\ queue = <<"a">>
    /\ "Uncaught exception" \in log
    /\ DOMAIN queue_length = {<<"a">>, <<"b">>}
    /\ queue_length[<<"a">>] = 3
    /\ queue_length[<<"b">>] = 1

\* C20: the units write disjoint parts of the registry.  A step that handles
\* an event leaves the queue-depth gauge and the sampler as they are; a step
\* of the sampler thread leaves every counter, worker gauge and histogram,
\* the State and the consumption loop as they are.  The steps of one unit
\* therefore meet the same values whatever steps of the other come between.
C20_DisjointWrites ==
    /\ [][pending' # pending =>
            UNCHANGED <<queue_length, samplerVars>>]_vars
    /\ [][(samplerPc \in {"check", "cycle", "sleep", "errsleep"})
             /\ samplerVars' # samplerVars =>
            UNCHANGED <<stateVars, eventMetricVars, pending, delivered,
                        mainPc>>]_vars
    /\ [][queue_length' # queue_length =>
            UNCHANGED <<stateVars, eventMetricVars, pending>>]_vars

\* An event was handled while the sampler was between two passes, the first
\* failed and the second successful: each unit's series hold what that unit
\* wrote.
C20_Witness ==
    /\ pending = 0
    /\ delivered.type = "task-succeeded"
    /\ samplerPc = "sleep"
    /\ result # <<>>
    /\ "Uncaught exception" \in log
    /\ DOMAIN queue_length = {<<"celery">>, <<"a">>}
    /\ queue_length[<<"celery">>] = 2
    /\ queue_length[<<"a">>] = 1
    /\ DOMAIN celery_task_runtime = {<<"None", "w1">>}
    /\ celery_task_runtime[<<"None", "w1">>] = 1
    /\ state_counters["task-succeeded"][<<"None", "w1">>] = 1

====
